---- MODULE Spec2Model ----
(***************************************************************************)
(* Verification model of the two cores of the repository:                  *)
(*   degrees/degrees.py     load_data, neighbors_for_person, shortest_path *)
(*   tictactoe/tictactoe.py player, actions, result, winner, terminal,     *)
(*                          utility, minimax, max_value, min_value         *)
(***************************************************************************)
EXTENDS Integers, Sequences, FiniteSets, TLC

(***************************************************************************)
(* Bounds of the degrees model.                                            *)
(***************************************************************************)
NumPersons == 3
NumMovies == 2
MaxStars == 5

\* Python's None, as the action of the root node (degrees.py:146).
None == 0

PersonIds == 1..NumPersons
MovieIds == 1..NumMovies
\* ids a stars.csv row may carry: the known ones and one id absent from its table
UnknownPerson == NumPersons + 1
UnknownMovie == NumMovies + 1
RowPersonIds == PersonIds \cup {UnknownPerson}
RowMovieIds == MovieIds \cup {UnknownMovie}

VARIABLES
    people,           \* people[p]: the "movies" set of person p
    movies,           \* movies[m]: the "stars" set of movie m
    pc,               \* "load" | "loop" | "for" | "done"
    source, target,   \* arguments of shortest_path
    frontier,         \* QueueFrontier.frontier, a list of nodes
    explored_people, explored_movies,
    node,             \* the node removed from the frontier
    pending,          \* neighbours the for loop of lines 198-205 has yet to visit
    outcome,          \* "" | "path" | "None" | "Exception" | "KeyError"
    path,             \* the returned list of (movie, person)
    enqueued,         \* history: how often each person was added to the frontier
    expanded,         \* history: how often neighbors_for_person ran for each person
    skipped,          \* history: persons whose node the dequeue-time skip discarded
    board,            \* the board the caller holds
    called,           \* "" | "result" | "minimax": the call that has just returned
    action,           \* the action given to result
    order,            \* the iteration order of the move sets in the minimax call
    old_board,        \* history: the board as it was when the call was made
    new_board,        \* the board result returned
    raised,           \* whether the call raised ValueError
    best_move         \* the move minimax returned

degreesVars == <<people, movies, pc, source, target, frontier, explored_people,
                 explored_movies, node, pending, outcome, path, enqueued,
                 expanded, skipped>>

boardVars == <<board, called, action, order, old_board, new_board, raised, best_move>>

vars == <<degreesVars, boardVars>>

(***************************************************************************)
(* util.Node: state, parent, action.  A node is kept as the list of        *)
(* (action, state) pairs from the root to itself, which is what following  *)
(* .parent from it yields, reversed.                                       *)
(***************************************************************************)
Node(state, parent, act) == Append(parent, <<act, state>>)
NodeState(n) == n[Len(n)][2]
NodeAction(n) == n[Len(n)][1]
NodeParent(n) == SubSeq(n, 1, Len(n) - 1)

(***************************************************************************)
(* util.QueueFrontier: a first-in first-out list of nodes.                 *)
(***************************************************************************)
FrontierAdd(fr, n) == Append(fr, n)
FrontierEmpty(fr) == Len(fr) = 0
FrontierRemove(fr) == [node |-> Head(fr), frontier |-> Tail(fr)]
ContainsState(fr, state) == \E i \in 1..Len(fr) : NodeState(fr[i]) = state

(***************************************************************************)
(* load_data, the stars.csv loop.                                          *)
(***************************************************************************)
StarCount == LET RECURSIVE Sum(_)
                 Sum(S) == IF S = {} THEN 0
                           ELSE LET p == CHOOSE x \in S : TRUE
                                IN Cardinality(people[p]) + Sum(S \ {p})
             IN Sum(PersonIds)

\* people[row["person_id"]]["movies"].add(row["movie_id"]): KeyError for an
\* unknown person, before anything is changed.
PeopleAfterRow(p, m) ==
    IF p \in PersonIds THEN [people EXCEPT ![p] = @ \cup {m}] ELSE people

\* movies[row["movie_id"]]["stars"].add(row["person_id"]): reached only when the
\* line before did not raise; KeyError for an unknown movie.
MoviesAfterRow(p, m) ==
    IF p \in PersonIds /\ m \in MovieIds
    THEN [movies EXCEPT ![m] = @ \cup {p}] ELSE movies

LoadStarRow(p, m) ==
    /\ pc = "load"
    /\ StarCount < MaxStars
    /\ people' = PeopleAfterRow(p, m)
    /\ movies' = MoviesAfterRow(p, m)
    /\ UNCHANGED <<pc, source, target, frontier, explored_people, explored_movies,
                   node, pending, outcome, path, enqueued, expanded, skipped>>
    /\ UNCHANGED boardVars

(***************************************************************************)
(* neighbors_for_person.  movies[movie_id] raises KeyError for a movie id  *)
(* that is in the person's set and not in the movies table.                *)
(***************************************************************************)
NeighborsRaises(person_id) == \E movie_id \in people[person_id] : movie_id \notin MovieIds

\* every movie of the person paired with every star of any of them
neighbors_for_person_AnyMovie(person_id) ==
    LET ms == people[person_id] \cap MovieIds
    IN ms \X UNION { movies[movie_id] : movie_id \in ms }

neighbors_for_person(person_id) ==
    UNION { { <<movie_id, p>> : p \in movies[movie_id] } :
            movie_id \in people[person_id] \cap MovieIds }

(***************************************************************************)
(* shortest_path.                                                          *)
(***************************************************************************)
NoCount == [p \in PersonIds |-> 0]

\* the check of line 136 left out
SourceHasNoMovies_Unchecked(s) == FALSE

\* line 136
SourceHasNoMovies(s) == people[s] = {}

\* an exhausted frontier raised as an error
EmptyFrontierOutcome_Raises == "Exception"

\* line 156
EmptyFrontierOutcome == "None"

\* lines 131-148
StartSearch(s, t) ==
    /\ pc = "load"
    /\ source' = s
    /\ target' = t
    /\ IF s = t
       THEN /\ pc' = "done" /\ outcome' = "path" /\ path' = <<>>
            /\ UNCHANGED <<frontier, enqueued>>
       ELSE IF SourceHasNoMovies(s)
       THEN /\ pc' = "done" /\ outcome' = "Exception"
            /\ UNCHANGED <<path, frontier, enqueued>>
       ELSE /\ pc' = "loop"
            /\ frontier' = FrontierAdd(<<>>, Node(s, <<>>, None))
            /\ enqueued' = [enqueued EXCEPT ![s] = @ + 1]
            /\ UNCHANGED <<outcome, path>>
    /\ UNCHANGED <<people, movies, explored_people, explored_movies, node, pending,
                   expanded, skipped>>
    /\ UNCHANGED boardVars

\* lines 174-179: every node of the chain, the root's (None, source) included
PathAtDequeue(n) == n

\* the chain appended with its root, as lines 175-177 do
PathThroughNeighbor_KeepRoot(n, movie) == n \o <<<<movie, target>>>>

\* lines 185-195: the hop to the target, then the chain without the root
PathThroughNeighbor(n, movie) ==
    SelectSeq(n, LAMBDA e : e[1] # None) \o <<<<movie, target>>>>

\* line 162
AlreadyExplored(actor, movie) ==
    actor \in explored_people /\ (movie = None \/ movie \in explored_movies)

\* lines 155-195: one pass of the while loop up to the for loop
Dequeue ==
    /\ pc = "loop"
    /\ IF FrontierEmpty(frontier)
       THEN /\ pc' = "done" /\ outcome' = EmptyFrontierOutcome
            /\ UNCHANGED <<frontier, node, explored_people, explored_movies,
                           pending, path, expanded, skipped>>
       ELSE LET rem == FrontierRemove(frontier)
                n == rem.node
                actor == NodeState(n)
                movie == NodeAction(n)
            IN
            /\ frontier' = rem.frontier
            /\ node' = n
            /\ IF AlreadyExplored(actor, movie)
               THEN /\ skipped' = skipped \cup {actor}
                    /\ UNCHANGED <<pc, outcome, explored_people, explored_movies,
                                   pending, path, expanded>>
               ELSE
               /\ explored_people' = explored_people \cup {actor}
               /\ explored_movies' = IF movie # None
                                     THEN explored_movies \cup {movie}
                                     ELSE explored_movies
               /\ UNCHANGED skipped
               /\ IF movie # None /\ target \in movies[movie]
                  THEN /\ pc' = "done" /\ outcome' = "path"
                       /\ path' = PathAtDequeue(n)
                       /\ UNCHANGED <<pending, expanded>>
                  ELSE
                  /\ expanded' = [expanded EXCEPT ![actor] = @ + 1]
                  /\ IF NeighborsRaises(actor)
                     THEN /\ pc' = "done" /\ outcome' = "KeyError"
                          /\ UNCHANGED <<pending, path>>
                     ELSE LET people_acting_with_source == neighbors_for_person(actor)
                          IN
                          IF \E e \in people_acting_with_source : e[2] = target
                          THEN /\ pc' = "done" /\ outcome' = "path"
                               /\ \E e \in people_acting_with_source :
                                     /\ e[2] = target
                                     /\ path' = PathThroughNeighbor(n, e[1])
                               /\ UNCHANGED pending
                          ELSE /\ pc' = IF people_acting_with_source = {}
                                       THEN "loop" ELSE "for"
                               /\ pending' = people_acting_with_source
                               /\ UNCHANGED <<outcome, path>>
    /\ UNCHANGED <<people, movies, source, target, enqueued>>
    /\ UNCHANGED boardVars

\* the frontier membership test left out
MayEnqueue_NoFrontierCheck(movie, person) ==
    /\ person \notin explored_people
    /\ movie \notin explored_movies

\* lines 200-204
MayEnqueue(movie, person) ==
    /\ person \notin explored_people
    /\ movie \notin explored_movies
    /\ ~ContainsState(frontier, person)

\* lines 198-205: one iteration of the for loop, in any order of the set
ForNeighbor ==
    /\ pc = "for"
    /\ \E e \in pending :
          LET movie == e[1]
              person == e[2]
              child == Node(person, node, movie)
          IN
          /\ IF MayEnqueue(movie, person)
             THEN /\ frontier' = FrontierAdd(frontier, child)
                  /\ enqueued' = [enqueued EXCEPT ![person] = @ + 1]
             ELSE UNCHANGED <<frontier, enqueued>>
          /\ pending' = pending \ {e}
          /\ pc' = IF pending' = {} THEN "loop" ELSE "for"
    /\ UNCHANGED <<people, movies, source, target, explored_people, explored_movies,
                   node, outcome, path, expanded, skipped>>
    /\ UNCHANGED boardVars

DegreesInit ==
    /\ people = [p \in PersonIds |-> {}]
    /\ movies = [m \in MovieIds |-> {}]
    /\ pc = "load"
    /\ source = None
    /\ target = None
    /\ frontier = <<>>
    /\ explored_people = {}
    /\ explored_movies = {}
    /\ node = <<>>
    /\ pending = {}
    /\ outcome = ""
    /\ path = <<>>
    /\ enqueued = NoCount
    /\ expanded = NoCount
    /\ skipped = {}

(***************************************************************************)
(* tictactoe.py.  A board is three rows of three cells; cell (i, j) of the *)
(* source, i and j in 0..2, is board[i + 1][j + 1].                        *)
(***************************************************************************)
\* Bound of the tic-tac-toe model: the number of iteration orders of the move
\* sets that a minimax call is tried with.
NumOrders == 2

X == "X"
O == "O"
EMPTY == "EMPTY"

\* float('inf') and float('-inf'): above and below every utility
PosInf == 2
NegInf == -2

\* Python's None as the move minimax returns on a terminal board
NoMove == <<>>

Cell(b, i, j) == b[i + 1][j + 1]

initial_state == <<<<EMPTY, EMPTY, EMPTY>>,
                   <<EMPTY, EMPTY, EMPTY>>,
                   <<EMPTY, EMPTY, EMPTY>>>>

Cells == (0..2) \X (0..2)

Count(b, mark) == Cardinality({ c \in Cells : Cell(b, c[1], c[2]) = mark })

player(b) == IF Count(b, X) > Count(b, O) THEN O ELSE X

actions(b) == { c \in Cells : Cell(b, c[1], c[2]) = EMPTY }

\* line 47: the test that makes result raise ValueError
ResultRaises(b, a) ==
    LET i == a[1]
        j == a[2]
    IN i < 0 \/ i >= 3 \/ j < 0 \/ j >= 3 \/ Cell(b, i, j) # EMPTY

\* lines 49-51: the board returned
result(b, a) == [b EXCEPT ![a[1] + 1][a[2] + 1] = player(b)]

\* new_board = board, with no copy: the caller's board is written to
InputAfterResult_Aliased(b, a) == IF ResultRaises(b, a) THEN b ELSE result(b, a)

\* line 49: the rows are copied, so the caller's board is as it was
InputAfterResult(b, a) == b

\* three equal marks, not EMPTY, in the cells c1, c2, c3
Three(b, c1, c2, c3) ==
    /\ Cell(b, c1[1], c1[2]) # EMPTY
    /\ Cell(b, c1[1], c1[2]) = Cell(b, c2[1], c2[2])
    /\ Cell(b, c2[1], c2[2]) = Cell(b, c3[1], c3[2])

\* lines 58-69: the rows from the top, the columns from the left, the two
\* diagonals; the first full line found gives the winner
winner(b) ==
    IF Three(b, <<0, 0>>, <<0, 1>>, <<0, 2>>) THEN Cell(b, 0, 0)
    ELSE IF Three(b, <<1, 0>>, <<1, 1>>, <<1, 2>>) THEN Cell(b, 1, 0)
    ELSE IF Three(b, <<2, 0>>, <<2, 1>>, <<2, 2>>) THEN Cell(b, 2, 0)
    ELSE IF Three(b, <<0, 0>>, <<1, 0>>, <<2, 0>>) THEN Cell(b, 0, 0)
    ELSE IF Three(b, <<0, 1>>, <<1, 1>>, <<2, 1>>) THEN Cell(b, 0, 1)
    ELSE IF Three(b, <<0, 2>>, <<1, 2>>, <<2, 2>>) THEN Cell(b, 0, 2)
    ELSE IF Three(b, <<0, 0>>, <<1, 1>>, <<2, 2>>) THEN Cell(b, 0, 0)
    ELSE IF Three(b, <<0, 2>>, <<1, 1>>, <<2, 0>>) THEN Cell(b, 0, 2)
    ELSE EMPTY

\* all(cell is not EMPTY ...) of line 77
Full(b) == \A c \in Cells : Cell(b, c[1], c[2]) # EMPTY

terminal(b) == winner(b) # EMPTY \/ Full(b)

utility(b) == LET w == winner(b) IN IF w = X THEN 1 ELSE IF w = O THEN -1 ELSE 0

Max(a, b) == IF a >= b THEN a ELSE b
Min(a, b) == IF a <= b THEN a ELSE b

(***************************************************************************)
(* The order in which "for action in actions(board)" visits the set.  The  *)
(* order of a Python set is not fixed by the language; iteration order o   *)
(* visits the cells by a permutation of their row-major index.             *)
(***************************************************************************)
Orders == 1..NumOrders
OrderMult(o) == <<1, 8, 2, 7, 4, 5>>[((o - 1) % 6) + 1]
OrderShift(o) == ((o - 1) * 4) % 9
OrderCells == [o \in Orders |->
                 [k \in 1..9 |->
                    LET idx == (OrderMult(o) * (k - 1) + OrderShift(o)) % 9
                    IN <<idx \div 3, idx % 3>>] @@ <<>>] @@ <<>>
ActionsInOrder(b, o) == SelectSeq(OrderCells[o], LAMBDA c : Cell(b, c[1], c[2]) = EMPTY)

\* line 107 with ">=": the move seen last among equals is kept
BetterForX_OrEqual(score, best_score) == score >= best_score

\* line 107
BetterForX(score, best_score) == score > best_score

\* line 118 with "<=": the move seen last among equals is kept
BetterForO_OrEqual(score, best_score) == score <= best_score

\* line 118
BetterForO(score, best_score) == score < best_score

RECURSIVE max_value(_, _, _, _), min_value(_, _, _, _)
RECURSIVE MaxLoop(_, _, _, _, _, _, _), MinLoop(_, _, _, _, _, _, _)

\* lines 127-137
max_value(b, no_less_than, no_more_than, o) ==
    IF terminal(b) THEN utility(b)
    ELSE MaxLoop(b, ActionsInOrder(b, o), 1, NegInf, no_less_than, no_more_than, o)

\* lines 132-136: the loop from its k-th action on
MaxLoop(b, acts, k, v, no_less_than, no_more_than, o) ==
    IF k > Len(acts) THEN v
    ELSE LET v2 == Max(v, min_value(result(b, acts[k]), no_less_than, no_more_than, o))
             alpha == Max(no_less_than, v2)
         IN IF v2 >= no_more_than THEN v2
            ELSE MaxLoop(b, acts, k + 1, v2, alpha, no_more_than, o)

\* lines 140-150
min_value(b, no_less_than, no_more_than, o) ==
    IF terminal(b) THEN utility(b)
    ELSE MinLoop(b, ActionsInOrder(b, o), 1, PosInf, no_less_than, no_more_than, o)

\* lines 145-149: the loop from its k-th action on
MinLoop(b, acts, k, v, no_less_than, no_more_than, o) ==
    IF k > Len(acts) THEN v
    ELSE LET v2 == Min(v, max_value(result(b, acts[k]), no_less_than, no_more_than, o))
             beta == Min(no_more_than, v2)
         IN IF v2 <= no_less_than THEN v2
            ELSE MinLoop(b, acts, k + 1, v2, no_less_than, beta, o)

RECURSIVE RootLoopX(_, _, _, _, _, _, _), RootLoopO(_, _, _, _, _, _, _)

\* lines 105-110: the loop from its k-th action on
RootLoopX(b, acts, k, best_score, best, no_less_than, o) ==
    IF k > Len(acts) THEN best
    ELSE LET score == min_value(result(b, acts[k]), no_less_than, PosInf, o)
         IN IF BetterForX(score, best_score)
            THEN RootLoopX(b, acts, k + 1, score, acts[k], Max(no_less_than, score), o)
            ELSE RootLoopX(b, acts, k + 1, best_score, best, no_less_than, o)

\* lines 116-121: the loop from its k-th action on
RootLoopO(b, acts, k, best_score, best, no_more_than, o) ==
    IF k > Len(acts) THEN best
    ELSE LET score == max_value(result(b, acts[k]), NegInf, no_more_than, o)
         IN IF BetterForO(score, best_score)
            THEN RootLoopO(b, acts, k + 1, score, acts[k], Min(no_more_than, score), o)
            ELSE RootLoopO(b, acts, k + 1, best_score, best, no_more_than, o)

\* lines 94-123
minimax(b, o) ==
    IF terminal(b) THEN NoMove
    ELSE IF player(b) = X
    THEN RootLoopX(b, ActionsInOrder(b, o), 1, NegInf, NoMove, NegInf, o)
    ELSE RootLoopO(b, ActionsInOrder(b, o), 1, PosInf, NoMove, PosInf, o)

(***************************************************************************)
(* A caller of the board functions: from a board it holds it calls result  *)
(* with any coordinates or minimax, and goes on with a board that result   *)
(* returned for a legal move of a game that is not over.                   *)
(***************************************************************************)
Coordinates == (-1..3) \X (-1..3)

BoardInit ==
    /\ board = initial_state
    /\ called = ""
    /\ action = NoMove
    /\ order = None
    /\ old_board = initial_state
    /\ new_board = initial_state
    /\ raised = FALSE
    /\ best_move = NoMove

CallResult(a) ==
    /\ called = ""
    /\ called' = "result"
    /\ action' = a
    /\ old_board' = board
    /\ raised' = ResultRaises(board, a)
    /\ new_board' = IF ResultRaises(board, a) THEN new_board ELSE result(board, a)
    /\ board' = InputAfterResult(board, a)
    /\ UNCHANGED <<order, best_move>>
    /\ UNCHANGED degreesVars

CallMinimax(o) ==
    /\ called = ""
    /\ called' = "minimax"
    /\ order' = o
    /\ old_board' = board
    /\ best_move' = minimax(board, o)
    /\ UNCHANGED <<board, action, new_board, raised>>
    /\ UNCHANGED degreesVars

\* the caller drops what the call returned
Return ==
    /\ called # ""
    /\ called' = ""
    /\ action' = NoMove
    /\ order' = None
    /\ old_board' = board
    /\ new_board' = board
    /\ raised' = FALSE
    /\ best_move' = NoMove
    /\ UNCHANGED board
    /\ UNCHANGED degreesVars

\* board = result(board, move), in a game that is not over
Play ==
    /\ called = "result"
    /\ ~raised
    /\ ~terminal(old_board)
    /\ board' = new_board
    /\ called' = ""
    /\ action' = NoMove
    /\ order' = None
    /\ old_board' = new_board
    /\ raised' = FALSE
    /\ best_move' = NoMove
    /\ UNCHANGED new_board
    /\ UNCHANGED degreesVars

BoardNext ==
    \/ \E a \in Coordinates : CallResult(a)
    \/ \E o \in Orders : CallMinimax(o)
    \/ Return
    \/ Play

(***************************************************************************)
(* A game from the empty board: X plays the move minimax returns, O plays  *)
(* any legal move.                                                         *)
(***************************************************************************)
XMove(o) ==
    /\ called = ""
    /\ ~terminal(board)
    /\ player(board) = X
    /\ best_move' = minimax(board, o)
    /\ order' = o
    /\ IF best_move' \in actions(board)
       THEN /\ board' = result(board, best_move')
            /\ raised' = FALSE
       ELSE /\ raised' = TRUE
            /\ UNCHANGED board
    /\ old_board' = board'
    /\ new_board' = board'
    /\ UNCHANGED <<called, action>>
    /\ UNCHANGED degreesVars

OMove(a) ==
    /\ called = ""
    /\ ~raised
    /\ ~terminal(board)
    /\ player(board) = O
    /\ a \in actions(board)
    /\ board' = result(board, a)
    /\ old_board' = board'
    /\ new_board' = board'
    /\ UNCHANGED <<called, action, order, raised, best_move>>
    /\ UNCHANGED degreesVars

GameNext ==
    \/ \E o \in Orders : XMove(o)
    \/ \E a \in Cells : OMove(a)

Init == DegreesInit /\ BoardInit

Next ==
    \/ \E p \in RowPersonIds, m \in RowMovieIds : LoadStarRow(p, m)
    \/ \E s \in PersonIds, t \in PersonIds : StartSearch(s, t)
    \/ Dequeue
    \/ ForNeighbor

Spec == Init /\ [][Next]_vars

BoardSpec == Init /\ [][BoardNext]_vars

GameSpec == Init /\ [][GameNext]_vars

(***************************************************************************)
(* The person-costar graph of the tables, and distances in it.             *)
(***************************************************************************)
Symmetric ==
    \A p \in PersonIds, m \in RowMovieIds :
        (m \in people[p]) <=> (m \in MovieIds /\ p \in movies[m])

Costars(p) == { q \in PersonIds \ {p} : \E m \in MovieIds : {p, q} \subseteq movies[m] }

RECURSIVE Within(_, _)
Within(s, k) == IF k = 0 THEN {s}
                ELSE LET W == Within(s, k - 1)
                     IN W \cup UNION { Costars(p) : p \in W }

Reachable(s, t) == t \in Within(s, NumPersons)

Distance(s, t) == CHOOSE k \in 0..NumPersons :
                      /\ t \in Within(s, k)
                      /\ \A j \in 0..(k - 1) : t \notin Within(s, j)

SearchRunning == pc \in {"loop", "for"}

C2_ValidConnection ==
    (outcome = "path" /\ path # <<>>)
    => /\ path[Len(path)][2] = target
       /\ \A i \in 1..Len(path) :
            LET movie == path[i][1]
                prev == IF i = 1 THEN source ELSE path[i - 1][2]
            IN /\ movie # None
               /\ movie \in MovieIds
               /\ path[i][2] \in movies[movie]
               /\ prev \in movies[movie]

C2_Witness ==
    /\ outcome = "path" /\ Len(path) = 2
    /\ path[1][1] # path[2][1]
    /\ Cardinality(people[path[1][2]]) = 2

\* What is left of a search: the persons not yet explored, the nodes of the
\* frontier, the neighbours the for loop has yet to visit.
Rank ==
    (2 * NumPersons * NumMovies + 1) * Cardinality(PersonIds \ explored_people)
    + Len(frontier) + 2 * Cardinality(pending)

\* C3: on a symmetric graph a search that has started terminates (it can always
\* take its next step, and every step that does not end it leaves less to do),
\* and when the target is not reachable it ends with None.
C3_TerminatesNotFound ==
    /\ [](SearchRunning => ENABLED (Dequeue \/ ForNeighbor))
    /\ [][(SearchRunning /\ SearchRunning' /\ Symmetric) => Rank' < Rank]_vars
    /\ []((pc = "done" /\ Symmetric /\ people[source] # {}
             /\ ~Reachable(source, target)) => outcome = "None")

\* the frontier exhausted after a component of two persons was expanded
C3_Witness ==
    /\ pc = "done" /\ Symmetric /\ outcome = "None"
    /\ people[source] # {} /\ ~Reachable(source, target)
    /\ Cardinality(explored_people) >= 2

\* C4 as stated: a source without movies makes shortest_path raise, for every
\* target.
C4_Original ==
    (pc = "done" /\ people[source] = {}) => outcome = "Exception"

\* C4: a source without movies makes shortest_path raise for every target other
\* than the source; for the source itself the empty path is returned.
C4_RaisesUnlessSame ==
    (pc = "done" /\ people[source] = {})
    => IF source = target THEN outcome = "path" /\ path = <<>>
       ELSE outcome = "Exception"

C4_Witness ==
    /\ pc = "done" /\ people[source] = {} /\ source # target
    /\ people[target] # {} /\ outcome = "Exception"

\* C8: after any star rows the starred-in relation is symmetric across the two
\* tables, and a row naming an unknown person or movie changes neither table.
C8_LoadSymmetric ==
    /\ []Symmetric
    /\ [][\A p \in RowPersonIds, m \in RowMovieIds :
            (LoadStarRow(p, m) /\ (p \notin PersonIds \/ m \notin MovieIds))
            => UNCHANGED <<people, movies>>]_vars

\* C9: no person is held by two frontier nodes at once, every person is
\* enqueued at most once and expanded at most once, and the dequeue-time skip
\* never discards a node of a person not yet expanded.
C9_AtMostOnce ==
    /\ \A i, j \in 1..Len(frontier) :
          i # j => NodeState(frontier[i]) # NodeState(frontier[j])
    /\ \A p \in PersonIds : enqueued[p] <= 1 /\ expanded[p] <= 1
    /\ \A p \in skipped : expanded[p] >= 1

\* a neighbour left out of the frontier only because the frontier holds it
C9_Witness ==
    /\ pc = "for"
    /\ \E e \in pending :
          /\ e[2] \notin explored_people
          /\ e[1] \notin explored_movies
          /\ ContainsState(frontier, e[2])

\* C10: the pairs computed when expanding P hold (M, Q) for every movie M of P
\* and every other star Q of M, and never the self-pair (M, P).
C10_NoSelfPair ==
    pc = "for"
    => LET P == NodeState(node)
           computed == neighbors_for_person(P)
       IN /\ \A M \in people[P] : \A Q \in movies[M] \ {P} : <<M, Q>> \in computed
          /\ \A M \in people[P] : <<M, P>> \notin computed

(***************************************************************************)
(* Minimax without pruning: the value of every board of a game, from the   *)
(* full boards back to the empty one, and the first move in the iteration  *)
(* order that attains the value of its board.                              *)
(***************************************************************************)
RECURSIVE BoardsUpTo(_)
\* BoardsUpTo(k)[n + 1]: the boards of a game after n moves, n in 0..k
BoardsUpTo(k) ==
    IF k = 0 THEN <<{initial_state}>>
    ELSE LET before == BoardsUpTo(k - 1)
         IN Append(before,
                   UNION { { result(b, a) : a \in actions(b) } :
                           b \in { x \in before[k] : ~terminal(x) } })

BoardsAfter == BoardsUpTo(9)

RECURSIVE ValuesFrom(_)
ValuesFrom(k) ==
    IF k = 9 THEN [b \in BoardsAfter[10] |-> utility(b)] @@ <<>>
    ELSE LET deeper == ValuesFrom(k + 1)
             Best(S) == CHOOSE v \in S : \A w \in S : v >= w
             Worst(S) == CHOOSE v \in S : \A w \in S : v <= w
         IN deeper @@
            [b \in BoardsAfter[k + 1] |->
               IF terminal(b) THEN utility(b)
               ELSE LET vs == { deeper[result(b, a)] : a \in actions(b) }
                    IN IF player(b) = X THEN Best(vs) ELSE Worst(vs)]

MinimaxValue == ValuesFrom(0)

PlainMove(b, o) ==
    LET acts == ActionsInOrder(b, o)
        first == CHOOSE k \in 1..Len(acts) :
                    /\ MinimaxValue[result(b, acts[k])] = MinimaxValue[b]
                    /\ \A j \in 1..(k - 1) :
                          MinimaxValue[result(b, acts[j])] # MinimaxValue[b]
    IN acts[first]

\* C5: on a board of a game that is not over, the move minimax returns is the
\* move unpruned minimax returns with the same iteration order and the first
\* best move kept, and the unpruned value of that move is the value of the board.
C5_PruningKeepsMove ==
    (called = "minimax" /\ ~terminal(board))
    => /\ best_move = PlainMove(board, order)
       /\ MinimaxValue[result(board, best_move)] = MinimaxValue[board]

\* a call whose first move in the order is not a best one
C5_Witness ==
    /\ called = "minimax" /\ ~terminal(board)
    /\ best_move # NoMove
    /\ best_move # ActionsInOrder(board, order)[1]
    /\ Cardinality(actions(board)) >= 5

\* C6: in a game from the empty board in which X plays the moves minimax
\* returns and O plays any legal move, minimax always returns a legal move and
\* no finished game is won by O.
C6_XNeverLoses ==
    /\ ~raised
    /\ terminal(board) => winner(board) # O

\* a game played to a full board without a winner
C6_Witness ==
    /\ actions(board) = {} /\ winner(board) = EMPTY /\ ~raised

\* C7: result raises exactly when a coordinate is outside 0..2 or the cell is
\* occupied; the board given is unchanged in every case, and the board
\* returned differs from it only in the cell, which holds player(board).
C7_ResultContract ==
    called = "result"
    => /\ raised <=> (\/ action[1] \notin 0..2
                      \/ action[2] \notin 0..2
                      \/ Cell(old_board, action[1], action[2]) # EMPTY)
       /\ board = old_board
       /\ ~raised =>
            \A c \in (0..2) \X (0..2) :
               Cell(new_board, c[1], c[2]) =
                  IF c = action THEN player(old_board) ELSE Cell(old_board, c[1], c[2])

\* a call for an occupied cell of the board
C7_Witness ==
    /\ called = "result" /\ raised
    /\ action \in (0..2) \X (0..2)
    /\ board = old_board

====
